---- MODULE Spec2Model ----
(***************************************************************************)
(* Model of tasks.py: the evaluation-task data pipeline.                   *)
(*   bin_pack        packs token sequences into fixed-width rows           *)
(*   _get_output     derives the target row of a packed row                *)
(*   *_init / *_get_task_info / *_input   the task descriptors             *)
(* Python lists are sequences (1-based here, 0-based in the source).       *)
(***************************************************************************)
EXTENDS Integers, Sequences, FiniteSets, TLC

\* ------------------------------------------------------------------ bounds
MaxDocs  == 3   \* longest tokens_data list
MaxCtx   == 4   \* largest params['n_ctx']
MaxBatch == 3   \* largest params['eval_batch_size']
MaxYield == 3   \* batches a caller takes from one stream

\* ------------------------------------------------------- program constants
dummy_token == 1
Uint16Range == 65536
EosLarge    == 50256
VocabLarge  == 50257

None == "None"

\* Document token sequences handed over by the token source.
Docs == {<<>>, <<5>>, <<1>>, <<5, 6>>, <<0, 5>>, <<5, 6, 7>>}

DocLists == UNION {[1..n -> Docs] : n \in 0..MaxDocs}

\* Configurations as the interface documents them (int > 0), and every
\* integer a configuration file can hold besides.
NCtxs         == 1..MaxCtx
BatchSizes    == 1..MaxBatch
AnyNCtxs      == -1..MaxCtx
AnyBatchSizes == -2..MaxBatch
EosIds        == {0, EosLarge}
NVocabs       == {VocabLarge - 1, VocabLarge}

\* ------------------------------------------------------------ Python / numpy
\* Python's a % b for b # 0: the result has the sign of b.
PyMod(a, b) ==
    IF b > 0 THEN a % b
    ELSE LET r == (-a) % (-b) IN -r

\* Python's a // b for b # 0: floor division.
PyFloorDiv(a, b) == (a - PyMod(a, b)) \div b

\* A value stored in an array of dtype uint16.
ToUint16(x) == x % Uint16Range

Min(a, b) == IF a < b THEN a ELSE b

Last(s) == s[Len(s)]

\* ------------------------------------------------------------------ bin_pack
\* Mutant of AppendDoc: the room for the eos marker is forgotten in the test.
AppendDocNoEosRoom(bs, a, eos_token, n_ctx) ==
    LET opened == IF Len(bs) = 0 \/ Len(Last(bs)) + Len(a) > n_ctx
                  THEN Append(bs, <<>>)
                  ELSE bs
    IN  [opened EXCEPT ![Len(opened)] = (@ \o a) \o <<eos_token>>]

\* One iteration of the packing loop.
AppendDoc(bs, a, eos_token, n_ctx) ==
    LET opened == IF Len(bs) = 0 \/ Len(Last(bs)) + Len(a) + 1 > n_ctx
                  THEN Append(bs, <<>>)
                  ELSE bs
    IN  [opened EXCEPT ![Len(opened)] = (@ \o a) \o <<eos_token>>]

\* The packing loop over a whole list.
RECURSIVE PackLoop(_, _, _)
PackLoop(data, eos_token, n_ctx) ==
    IF Len(data) = 0 THEN <<>>
    ELSE AppendDoc(PackLoop(SubSeq(data, 1, Len(data) - 1), eos_token, n_ctx),
                   Last(data), eos_token, n_ctx)

\* Mutant of NeedsPad: pads up to one batch only.
NeedsPadBelowBatch(bs, pad_batch_size) == Len(bs) < pad_batch_size

\* Mutant of NeedsPad: an empty list of bins is padded too.
NeedsPadOrEmpty(bs, pad_batch_size) ==
    Len(bs) = 0 \/ PyMod(Len(bs), pad_batch_size) # 0

\* The loop test of the padding loop, for pad_batch_size # 0.
NeedsPad(bs, pad_batch_size) == PyMod(Len(bs), pad_batch_size) # 0

\* The padding loop, for pad_batch_size # 0.
RECURSIVE PadBins(_, _)
PadBins(bs, pad_batch_size) ==
    IF NeedsPad(bs, pad_batch_size)
    THEN PadBins(Append(bs, <<>>), pad_batch_size)
    ELSE bs

\* Mutant of CopyFails: a bin longer than the row is clipped silently.
CopyClips(b, n_ctx) == FALSE

\* bins_array[i, 0:len(b)] = b fails when b cannot be broadcast to the slice:
\* the slice holds min(len(b), n_ctx) cells, and only a length-1 value
\* stretches.
CopyFails(b, n_ctx) ==
    /\ Len(b) # Min(Len(b), n_ctx)
    /\ Len(b) # 1

\* Mutant of FillRow: the matrix is zero-filled (np.zeros for np.full).
FillRowZeroPad(b, n_ctx) ==
    [j \in 1..n_ctx |-> IF j <= Len(b) THEN ToUint16(b[j]) ELSE 0]

\* One row of the matrix: dummy-filled, then the bin copied to its start.
FillRow(b, n_ctx) ==
    [j \in 1..n_ctx |-> IF j <= Len(b) THEN ToUint16(b[j]) ELSE dummy_token]

\* Allocation and the copy loop: the matrix, or the exception raised.
FillArray(bs, n_ctx) ==
    IF n_ctx < 0 THEN [raised |-> "ValueError", array |-> <<>>]
    ELSE IF \E i \in 1..Len(bs) : CopyFails(bs[i], n_ctx)
    THEN [raised |-> "ValueError", array |-> <<>>]
    ELSE [raised |-> None,
          array  |-> [i \in 1..Len(bs) |-> FillRow(bs[i], n_ctx)]]

\* The whole function: the matrix returned, or the exception raised.
bin_pack(p, data) ==
    LET packed == PackLoop(data, p.eos_id, p.n_ctx) IN
    IF p.eval_batch_size = 0
    THEN [raised |-> "ZeroDivisionError", array |-> <<>>]
    ELSE FillArray(PadBins(packed, p.eval_batch_size), p.n_ctx)

\* ------------------------------------------------- lambada/wikitext helpers
\* eos_token = 50256 if params['n_vocab'] >= 50257 else 0
eos_token_of(p) == IF p.n_vocab >= VocabLarge THEN EosLarge ELSE 0

\* Mutant of Gather: the index is clamped to the row, not wrapped around.
GatherNoWrap(row, i, k, n_ctx) == row[Min(i + k, n_ctx - 1) + 1]

\* tf.gather(bin, (indexes + k) % n_ctx) at 0-based index i.
Gather(row, i, k, n_ctx) == row[((i + k) % n_ctx) + 1]

\* _get_output: the pair (bin, output) of one row.
get_output(row, eos_token, n_ctx) ==
    LET results(i) == Gather(row, i, 1, n_ctx)
        eos_next(i) == Gather(row, i, 2, n_ctx) = eos_token
    IN  <<row,
          [j \in 1..n_ctx |->
              IF eos_next(j - 1) THEN results(j - 1) ELSE eos_token]>>

\* Mutant of n_steps_of: the number of rows, not of batches.
n_steps_rows(array, batch_size) == Len(array)

\* len(bins_array) // params['eval_batch_size']
n_steps_of(array, batch_size) == PyFloorDiv(Len(array), batch_size)

\* dataset.batch(batch_size, drop_remainder=True): consecutive groups of
\* batch_size elements, a shorter last group dropped.
Batched(elems, batch_size) ==
    [k \in 1..(Len(elems) \div batch_size) |->
        SubSeq(elems, (k - 1) * batch_size + 1, k * batch_size)]

\* from_tensor_slices(bins_array).map(_get_output).batch(...): one pass.
OnePass(array, eos_token, n_ctx, batch_size) ==
    Batched([r \in 1..Len(array) |-> get_output(array[r], eos_token, n_ctx)],
            batch_size)

\* The cache file each task's init names (the tokenizer hash is fixed).
CachePath(task) ==
    CASE task = "lambada"     -> "lambada_H.json"
      [] task = "wikitext2"   -> "wikitext2_H.json"
      [] task = "wikitext103" -> "wikitext103_H.json"

\* The keys of params a task's functions write and read.
PathKey(task)  == IF task = "lambada" THEN "lambada_tokens_path"
                  ELSE "wikitext_path"
StepsKey(task) == IF task = "lambada" THEN "lambada_n_steps"
                  ELSE "wikitext_n_steps"

\* The tasks of task_descriptors that pack bins (coqa packs none and writes
\* only params['coqa_path']).
PackTasks == {"lambada", "wikitext2", "wikitext103"}

\* get_task_info_fn of a task: n_steps (None stands for the KeyError).
get_task_info(p, task) == p[StepsKey(task)]

\* --------------------------------------------------------------------- state
VARIABLES
    params,       \* the shared configuration dictionary
    tokens_data,  \* bin_pack: the argument
    bins,         \* bin_pack: the local list of bins
    idx,          \* bin_pack: number of documents consumed by the loop
    placed,       \* history: where each consumed document was written
    bins_array,   \* bin_pack: the matrix returned
    raised,       \* bin_pack: the exception that ended the call, or None
    pc,           \* bin_pack: position in the function
    files,        \* the token cache: path -> list of token sequences
    dataset,      \* the batch stream an input function returned
    pos,          \* the stream's position in its current pass
    yielded,      \* number of batches the caller has taken
    batch,        \* the batch taken last
    bin,          \* _get_output: the argument
    output        \* _get_output: the value returned

packVars   == <<tokens_data, bins, idx, placed, bins_array, pc>>
taskVars   == <<files, dataset, pos, yielded, batch>>
targetVars == <<bin, output>>

vars == <<params, raised, packVars, taskVars, targetVars>>

NoPack   == /\ tokens_data = <<>> /\ bins = <<>> /\ idx = 0 /\ placed = <<>>
            /\ bins_array = <<>> /\ pc = None
\* No stream yet, no batch yet, no output yet.
NoDataset == [task |-> None, path |-> None, eos_token |-> 0, batches |-> <<>>]

NoTasks  == /\ files = <<>> /\ dataset = NoDataset /\ pos = 0 /\ yielded = 0
            /\ batch = <<>>
NoTarget == bin = <<>> /\ output = <<>>

\* ------------------------------------------------- bin_pack, step by step
PackInit ==
    /\ params \in [n_ctx : NCtxs, eos_id : EosIds, eval_batch_size : BatchSizes]
    /\ tokens_data \in DocLists
    /\ bins = <<>>
    /\ idx = 0
    /\ placed = <<>>
    /\ bins_array = <<>>
    /\ raised = None
    /\ pc = "loop"
    /\ NoTasks /\ NoTarget
    /\ NoTasks /\ NoTarget

\* for a in tokens_data: one iteration.
PackDoc ==
    /\ pc = "loop"
    /\ idx < Len(tokens_data)
    /\ LET a  == tokens_data[idx + 1]
           nb == AppendDoc(bins, a, params.eos_id, params.n_ctx)
       IN  /\ bins' = nb
           /\ placed' = Append(placed, [bin   |-> Len(nb),
                                        start |-> Len(Last(nb)) - Len(a) - 1])
    /\ idx' = idx + 1
    /\ UNCHANGED <<params, tokens_data, bins_array, raised, pc, taskVars, targetVars>>

\* The for loop is exhausted.
PackEnd ==
    /\ pc = "loop"
    /\ idx = Len(tokens_data)
    /\ pc' = "pad"
    /\ UNCHANGED <<params, tokens_data, bins, idx, placed, bins_array, raised,
                   taskVars, targetVars>>

\* while len(bins) % pad_batch_size != 0: one evaluation of the test.
PadStep ==
    /\ pc = "pad"
    /\ IF params.eval_batch_size = 0
       THEN /\ raised' = "ZeroDivisionError"
            /\ pc' = "raised"
            /\ UNCHANGED bins
       ELSE IF NeedsPad(bins, params.eval_batch_size)
       THEN /\ bins' = Append(bins, <<>>)
            /\ UNCHANGED <<raised, pc>>
       ELSE /\ pc' = "fill"
            /\ UNCHANGED <<bins, raised>>
    /\ UNCHANGED <<params, tokens_data, idx, placed, bins_array, taskVars,
                   targetVars>>

\* np.full, the copy loop and the return.
Fill ==
    /\ pc = "fill"
    /\ LET r == FillArray(bins, params.n_ctx)
       IN  /\ raised' = r.raised
           /\ bins_array' = r.array
           /\ pc' = IF r.raised = None THEN "done" ELSE "raised"
    /\ UNCHANGED <<params, tokens_data, bins, idx, placed, taskVars, targetVars>>

PackNext == PackDoc \/ PackEnd \/ PadStep \/ Fill

SpecPack == PackInit /\ [][PackNext]_vars

\* bin_pack called with any integers for n_ctx and eval_batch_size.
ConfigInit ==
    /\ params \in [n_ctx : AnyNCtxs, eos_id : EosIds,
                   eval_batch_size : AnyBatchSizes]
    /\ tokens_data \in DocLists
    /\ bins = <<>>
    /\ idx = 0
    /\ placed = <<>>
    /\ bins_array = <<>>
    /\ raised = None
    /\ pc = "loop"
    /\ NoTasks /\ NoTarget
    /\ NoTasks /\ NoTarget

SpecConfig == ConfigInit /\ [][PackNext]_vars

\* ------------------------------------------------- _get_output on any row
RowTokens == {0, dummy_token, 5, EosLarge}

TargetInit ==
    /\ params \in [n_ctx : NCtxs, n_vocab : NVocabs]
    /\ bin \in [1..params.n_ctx -> RowTokens]
    /\ output = <<>>
    /\ raised = None
    /\ NoPack /\ NoTasks

\* dataset.map(_get_output) applied to one row.
GetOutput ==
    /\ output = <<>>
    /\ output' = get_output(bin, eos_token_of(params), params.n_ctx)
    /\ UNCHANGED <<params, raised, packVars, taskVars, bin>>

TargetNext == GetOutput

SpecTarget == TargetInit /\ [][TargetNext]_vars

\* ------------------------------------------------------ the task descriptors
\* Token caches the three packing tasks can find on disk.
TaskData == {
    <<>>,
    << <<5>>, <<1>> >>,
    << <<5, 6>>, <<0, 5>>, <<5, 6>> >>
}

TasksInit ==
    /\ params \in [n_ctx : NCtxs, eos_id : EosIds,
                   eval_batch_size : BatchSizes, n_vocab : NVocabs,
                   lambada_tokens_path : {None}, lambada_n_steps : {None},
                   wikitext_path : {None}, wikitext_n_steps : {None}]
    /\ files \in [{CachePath(t) : t \in PackTasks} -> TaskData]
    /\ dataset = NoDataset
    /\ pos = 0
    /\ yielded = 0
    /\ batch = <<>>
    /\ raised = None
    /\ NoPack /\ NoTarget

\* lambada_init / wikitext_init: read the cache, pack it, record the path
\* and the step count; an exception of bin_pack leaves params as they were.
InitTask(task) ==
    LET path == CachePath(task)
        r    == bin_pack(params, files[path])
    IN  /\ raised' = r.raised
        /\ params' = IF r.raised # None THEN params
                     ELSE [params EXCEPT
                             ![PathKey(task)]  = path,
                             ![StepsKey(task)] =
                                 n_steps_of(r.array, params.eval_batch_size)]
        /\ UNCHANGED <<packVars, taskVars, targetVars>>

lambada_init == InitTask("lambada")

wikitext_init(version) == InitTask(version)

\* lambada_input / wikitext_input: read the cache the recorded path names,
\* pack it again and build the stream.
InputTask(task) ==
    LET path == params[PathKey(task)] IN
    IF path = None
    THEN /\ raised' = "KeyError"
         /\ UNCHANGED <<params, packVars, taskVars, targetVars>>
    ELSE LET r == bin_pack(params, files[path]) IN
         IF r.raised # None
         THEN /\ raised' = r.raised
              /\ UNCHANGED <<params, packVars, taskVars, targetVars>>
         ELSE /\ raised' = None
              /\ dataset' = [task      |-> task,
                             path      |-> path,
                             eos_token |-> eos_token_of(params),
                             batches   |-> OnePass(r.array,
                                                   eos_token_of(params),
                                                   params.n_ctx,
                                                   params.eval_batch_size)]
              /\ pos' = 0
              /\ yielded' = 0
              /\ batch' = <<>>
              /\ UNCHANGED <<params, packVars, files, targetVars>>

lambada_input == InputTask("lambada")

wikitext_input(version) == InputTask(version)

\* The caller takes the next batch; dataset.repeat() starts the pass again
\* when it is exhausted.
NextBatch ==
    /\ dataset.task # None
    /\ yielded < MaxYield
    /\ Len(dataset.batches) > 0
    /\ LET at == IF pos = Len(dataset.batches) THEN 0 ELSE pos
       IN  /\ batch' = dataset.batches[at + 1]
           /\ pos' = at + 1
    /\ yielded' = yielded + 1
    /\ UNCHANGED <<params, raised, packVars, files, dataset, targetVars>>

TasksNext ==
    \/ lambada_init
    \/ \E version \in {"wikitext2", "wikitext103"} : wikitext_init(version)
    \/ lambada_input
    \/ \E version \in {"wikitext2", "wikitext103"} : wikitext_input(version)
    \/ NextBatch

SpecTasks == TasksInit /\ [][TasksNext]_vars

\* ---------------------------------------------------- properties of bin_pack
\* Number of bins the packing loop has opened.
Opened == IF placed = <<>> THEN 0 ELSE Last(placed).bin

Fits(a) == Len(a) + 1 <= params.n_ctx

\* The call has ended: a matrix returned, or an exception raised.
Returned == pc \in {"done", "raised"}

AllDummy(row) == \A j \in 1..Len(row) : row[j] = dummy_token

\* What the documents placed in bin r, up to document j, spell out.
RECURSIVE Spelled(_, _)
Spelled(r, j) ==
    IF j = 0 THEN <<>>
    ELSE Spelled(r, j - 1) \o
         (IF placed[j].bin = r
          THEN tokens_data[j] \o <<params.eos_id>>
          ELSE <<>>)

\* The step-by-step run of bin_pack ends as the function bin_pack says.
PackAgrees ==
    Returned => bin_pack(params, tokens_data)
                    = [raised |-> raised, array |-> bins_array]

\* C2: once bin_pack has returned, the number of rows is a multiple of
\* eval_batch_size, and every row beyond the bins the packing loop opened
\* comes from a bin of length 0.
C2_RowsMultipleOfBatch ==
    pc = "done" =>
        /\ PyMod(Len(bins_array), params.eval_batch_size) = 0
        /\ Len(bins_array) = Len(bins)
        /\ \A r \in (Opened + 1)..Len(bins_array) :
               bins[r] = <<>> /\ AllDummy(bins_array[r])

C2_Witness ==
    /\ pc = "done"
    /\ Opened > 0
    /\ Len(bins_array) > Opened + 1

\* C3: at every step of bin_pack, when every document plus its eos marker
\* fits n_ctx, no bin is longer than n_ctx and every consumed document lies
\* whole, followed by its eos marker, inside one bin, after the documents
\* consumed before it.
C3_NoOverflowNoSplit ==
    (\A j \in 1..Len(tokens_data) : Fits(tokens_data[j])) =>
        /\ \A r \in 1..Len(bins) : Len(bins[r]) <= params.n_ctx
        /\ Len(placed) = idx
        /\ \A j \in 1..idx :
               LET a == tokens_data[j] IN
               /\ placed[j].bin \in 1..Len(bins)
               /\ placed[j].start >= 0
               /\ SubSeq(bins[placed[j].bin], placed[j].start + 1,
                         placed[j].start + Len(a) + 1) = a \o <<params.eos_id>>
               /\ \A k \in 1..(j - 1) :
                      \/ placed[k].bin < placed[j].bin
                      \/ /\ placed[k].bin = placed[j].bin
                         /\ placed[k].start + Len(tokens_data[k]) + 1
                                <= placed[j].start

C3_Witness ==
    /\ pc = "done"
    /\ \A j \in 1..Len(tokens_data) : Fits(tokens_data[j])
    /\ Len(tokens_data) = MaxDocs
    /\ placed[1].bin = placed[2].bin
    /\ placed[MaxDocs].bin > placed[1].bin
    /\ Len(bins[1]) = params.n_ctx

\* C4: the matrix returned holds, row by row, the documents in source order:
\* row r starts with the documents placed in bin r, each copied unchanged and
\* followed by one eos marker, every later position is the dummy token 1, and
\* the bins of successive documents never go backwards, so that reading the
\* rows in order yields every document once and in order.
C4_MatrixLayout ==
    pc = "done" =>
        /\ Len(placed) = Len(tokens_data)
        /\ \A j \in 2..Len(placed) : placed[j - 1].bin <= placed[j].bin
        /\ \A j \in 1..Len(placed) : placed[j].bin \in 1..Len(bins_array)
        /\ \A r \in 1..Len(bins_array) :
               LET content == Spelled(r, Len(tokens_data))
                   row     == bins_array[r]
               IN  /\ Len(row) = params.n_ctx
                   /\ Len(content) <= Len(row)
                   /\ SubSeq(row, 1, Len(content)) = content
                   /\ \A j \in (Len(content) + 1)..Len(row) :
                          row[j] = dummy_token

C4_Witness ==
    /\ pc = "done"
    /\ Len(tokens_data) = MaxDocs
    /\ placed[1].bin = placed[2].bin
    /\ placed[MaxDocs].bin > placed[1].bin
    /\ tokens_data[1] # tokens_data[2]
    /\ Len(bins_array) > Opened
    /\ \E r \in 1..Opened : Len(bins[r]) < params.n_ctx

\* C6 as stated: an empty document list gives at least eval_batch_size rows,
\* all of them dummy.
C6_EmptyGivesBatchRows ==
    (tokens_data = <<>> /\ pc = "done") =>
        /\ Len(bins_array) >= params.eval_batch_size
        /\ \A r \in 1..Len(bins_array) : AllDummy(bins_array[r])

\* C6 amended: bin_pack does not fail on an empty document list, and returns
\* a matrix with no rows: 0 is already a multiple of eval_batch_size, so the
\* padding loop appends nothing.
C6_EmptyGivesNoRows ==
    tokens_data = <<>> =>
        /\ pc # "raised"
        /\ pc = "done" => bins_array = <<>>
        /\ bins = <<>>

C6_Witness ==
    /\ tokens_data = <<>>
    /\ pc = "done"
    /\ params.eval_batch_size > 1

\* Some document of the argument does not fit a row with its eos marker.
HasOversized == \E j \in 1..Len(tokens_data) : ~Fits(tokens_data[j])

\* C7 as stated: with an oversized document the call completes without
\* raising, the document whole in a bin of its own.
C7_OversizedCompletes ==
    (HasOversized /\ Returned) =>
        /\ pc = "done"
        /\ \A j \in 1..Len(tokens_data) :
               ~Fits(tokens_data[j]) =>
                   bins[placed[j].bin] = tokens_data[j] \o <<params.eos_id>>

\* C7 amended: the packing loop neither splits nor truncates an oversized
\* document, which gets a bin of its own longer than n_ctx; the copy of that
\* bin into the matrix then raises ValueError, and no matrix is returned.
C7_OversizedRaises ==
    /\ \A j \in 1..idx :
           ~Fits(tokens_data[j]) =>
               /\ bins[placed[j].bin] = tokens_data[j] \o <<params.eos_id>>
               /\ Len(bins[placed[j].bin]) > params.n_ctx
    /\ HasOversized => pc # "done" /\ bins_array = <<>>
    /\ (HasOversized /\ Returned) => raised = "ValueError"

C7_Witness ==
    /\ HasOversized
    /\ pc = "raised"
    /\ Len(tokens_data) > 1
    /\ Fits(tokens_data[1])

\* C8: bin_pack fails with ConfigurationError whenever n_ctx <= 0 or
\* eval_batch_size <= 0, and for a positive pair never raises that error.
C8_ConfigurationError ==
    Returned =>
        IF params.n_ctx <= 0 \/ params.eval_batch_size <= 0
        THEN pc = "raised" /\ raised = "ConfigurationError"
        ELSE raised # "ConfigurationError"


\* ------------------------------------------------- properties of _get_output
\* 0-based element of a row, as the source indexes it.
At(row, i) == row[i + 1]

\* C1: for every row and every position i in 0..n_ctx-1 the target is
\* bin[(i+1) mod n_ctx] when bin[(i+2) mod n_ctx] is the eos marker and the eos
\* marker otherwise, the last two positions wrapping around; a row of dummy
\* tokens with a single eos marker at k has the eos marker everywhere in its
\* target but at (k-2) mod n_ctx, which holds bin[(k-1) mod n_ctx]; the input
\* returned is the row unchanged.
C1_TargetRule ==
    output # <<>> =>
        LET n      == params.n_ctx
            eos    == eos_token_of(params)
            target == output[2]
        IN  /\ output[1] = bin
            /\ DOMAIN target = 1..n
            /\ \A i \in 0..(n - 1) :
                   At(target, i) = IF At(bin, (i + 2) % n) = eos
                                   THEN At(bin, (i + 1) % n)
                                   ELSE eos
            /\ \A k \in 0..(n - 1) :
                   ( /\ At(bin, k) = eos
                     /\ \A j \in 0..(n - 1) : j # k => At(bin, j) = dummy_token )
                   => \A i \in 0..(n - 1) :
                          At(target, i) = IF i = (k - 2) % n
                                          THEN At(bin, (k - 1) % n)
                                          ELSE eos

C1_Witness ==
    /\ output # <<>>
    /\ params.n_ctx = MaxCtx
    /\ At(bin, 0) = eos_token_of(params)
    /\ \A j \in 1..(params.n_ctx - 1) : At(bin, j) = dummy_token
    /\ At(output[2], params.n_ctx - 2) = dummy_token
    /\ At(output[2], params.n_ctx - 1) = eos_token_of(params)

\* ------------------------------------------- properties of the descriptors
Initialised(task) == params[PathKey(task)] # None

\* C5: the step count a task's init recorded, which get_task_info returns, is
\* floor(num_bins / eval_batch_size) of the matrix bin_pack makes of the
\* recorded cache, and the stream the input function builds from that cache
\* has exactly that many batches per pass: the t-th batch taken is the pair
\* (row, target) of rows (t mod steps)*batch_size .. +batch_size-1.
C5_StepsAndPeriod ==
    /\ \A task \in PackTasks :
           Initialised(task) =>
               LET m == bin_pack(params, files[params[PathKey(task)]]) IN
               /\ m.raised = None
               /\ get_task_info(params, task)
                      = Len(m.array) \div params.eval_batch_size
    /\ (dataset.task # None /\ dataset.path = params[PathKey(dataset.task)]) =>
           LET steps == get_task_info(params, dataset.task)
               size  == params.eval_batch_size
               m     == bin_pack(params, files[dataset.path]).array
           IN  /\ Len(dataset.batches) = steps
               /\ yielded > 0 =>
                      LET k == (yielded - 1) % steps IN
                      batch = [i \in 1..size |->
                                  <<m[k * size + i],
                                    get_output(m[k * size + i],
                                               eos_token_of(params),
                                               params.n_ctx)[2]>>]

C5_Witness ==
    /\ dataset.task # None
    /\ dataset.path = params[PathKey(dataset.task)]
    /\ params.eval_batch_size = 2
    /\ get_task_info(params, dataset.task) = 2
    /\ yielded = 3
    /\ batch = dataset.batches[1]
    /\ batch # dataset.batches[2]

\* C9: the eos marker bin_pack appends (params['eos_id']) is the marker the
\* _get_output of a stream compares against and emits.
C9_SameEosMarker ==
    dataset.task # None => dataset.eos_token = params.eos_id

\* C10: an init call leaves every other task's recorded cache path and step
\* count as that task's own init recorded them.
C10_InitFrame ==
    [][\A task \in PackTasks :
           params[PathKey(task)] = CachePath(task) =>
               /\ params'[PathKey(task)] = CachePath(task)
               /\ get_task_info(params', task) = get_task_info(params, task)
      ]_vars

====
